---- MODULE Spec2Model ----
(***************************************************************************)
(* Assignment and rebalancing engine of the IdeiaTech API.                 *)
(*                                                                         *)
(* State: the users and tasks tables of the relational store, plus the     *)
(* response of the last handler that ran (`last`).  Every handler runs in  *)
(* one SQLAlchemy session: its writes are staged and reach the store at    *)
(* db.commit(), or are dropped by db.rollback().                           *)
(*                                                                         *)
(* Conventions: Python None / SQL NULL is NoUser for a person id, NoHours  *)
(* for an estimate, NoScore for a score, NoReason for a text and NoTime    *)
(* for a timestamp.  Hours are whole numbers.  Queries without ORDER BY    *)
(* return rows in primary-key order.                                       *)
(***************************************************************************)
EXTENDS Integers, Sequences, FiniteSets, TLC

VARIABLES users, tasks, last, cands, fb, checks, burnout, sessions, profile,
          analysis, considered, oracle_calls

vars == <<users, tasks, last, cands, fb, checks, burnout, sessions, profile, analysis,
          considered, oracle_calls>>

\* what the handlers of the task routes, the distribution service and the
\* burnout detection never touch
aside == <<sessions, profile, analysis, considered, oracle_calls>>

----------------------------------------------------------------------------
(* Bounds of the model *)

MaxHours == 1   \* largest estimated_hours a request carries
MaxLoad  == 2   \* requests that would push a current_workload above it are not sent
MaxCands == 3   \* longest candidate list handed to the fallback (SpecFallback)
MaxScores == 6  \* longest score sequence handed to the trend test (SpecTrend)
MaxChecks == 4  \* most wellbeing checks in a window (SpecBurnout)
MaxCapacity == 10  \* largest workload_capacity of a profile (SpecProfile)
MaxPending == 4  \* most tasks one member holds (SpecConsider)
MaxCalls == 2  \* answers the oracle has ready for one request (SpecOracle)

----------------------------------------------------------------------------
(* Null values and the ids of the rows *)

NoUser    == 0
NoHours   == 0
NoScore   == -1
NoTime    == 0
NoReason  == "<null>"
UserIds == {1, 2, 3}

MaxOf(S) == CHOOSE x \in S : \A y \in S : x >= y

\* an id that names no row of users
BogusUser == MaxOf(UserIds) + 1
TaskIds == {1, 2}

TaskStatus   == {"pending", "in_progress", "completed", "cancelled", "blocked"}
TaskPriority == {"low", "medium", "high", "urgent"}

FallbackReason == "Selecao automatica baseada em menor carga de trabalho (IA indisponivel)"
FallbackWarning == "Sistema de IA temporariamente indisponivel"

----------------------------------------------------------------------------
(* Generic helpers *)

Max(a, b) == IF a >= b THEN a ELSE b
Min(a, b) == IF a <= b THEN a ELSE b

MinOf(S) == CHOOSE x \in S : \A y \in S : x <= y

RECURSIVE SortedSeq(_)
\* the ids of S in ascending order: the row order of a query
SortedSeq(S) ==
    IF S = {} THEN <<>>
    ELSE LET m == MinOf(S) IN <<m>> \o SortedSeq(S \ {m})

RECURSIVE SumOver(_, _)
\* the sum of f[x] over the x of S
SumOver(S, f) ==
    IF S = {} THEN 0
    ELSE LET x == CHOOSE y \in S : TRUE IN f[x] + SumOver(S \ {x}, f)

----------------------------------------------------------------------------
(* Workload model: app/models/user.py *)

\* User.workload_percentage as the exact fraction <<numerator, denominator>>:
\* 0.0 when the capacity is 0, (current_workload / capacity) * 100 otherwise.
\* For the integer pairs a users row holds the float product falls on the
\* same side of 90 and of 70 as the exact value.
workload_percentage(u) ==
    IF u.workload_capacity = 0 THEN <<0, 1>>
    ELSE <<u.current_workload * 100, u.workload_capacity>>

\* an overload test that counts exactly 90% as overloaded
is_overloaded_from_ninety(u) ==
    /\ u.workload_capacity # 0
    /\ u.current_workload * 100 >= 90 * u.workload_capacity

\* User.is_overloaded: workload_percentage > 90, the percentage being 0.0
\* when the capacity is 0 and (current_workload / capacity) * 100 otherwise
is_overloaded(u) ==
    /\ u.workload_capacity # 0
    /\ u.current_workload * 100 > 90 * u.workload_capacity

\* workload_percentage < 70, as rebalance_team_workload tests it
is_underloaded(u) ==
    \/ u.workload_capacity = 0
    \/ u.current_workload * 100 < 70 * u.workload_capacity

\* User.available_hours
available_hours(u) == Max(0, u.workload_capacity - u.current_workload)

\* round(user.workload_percentage, 1), in tenths of a percent; round() rounds
\* an exact half to the even neighbour
workload_tenths(u) ==
    IF u.workload_capacity = 0 THEN 0
    ELSE LET n == u.current_workload * 1000
             d == u.workload_capacity
             q == n \div d
             r == n - q * d
         IN  IF 2 * r < d THEN q
             ELSE IF 2 * r > d THEN q + 1
             ELSE IF q % 2 = 0 THEN q ELSE q + 1

----------------------------------------------------------------------------
(* Recommendation engine: app/services/gemini_service.py *)

\* what the caller of the engine gets back when no recommendation was asked for
NoRec ==
    [kind |-> "none", error |-> "", has_id |-> FALSE,
     recommended_user_id |-> NoUser, match_score |-> NoScore,
     reasoning |-> NoReason, warnings |-> <<>>]

\* {"error": msg}
ErrorRec(msg) == [NoRec EXCEPT !.kind = "error", !.error = msg]

\* The outcomes of self.model.generate_content(prompt) followed by
\* _parse_json_response(response.text): the call raises; the text is no JSON;
\* the text is JSON, with or without a recommended_user_id, which may name
\* anybody, nobody (null) or no row at all, and with or without match_score
\* and reasoning.
OracleRaises ==
    [kind |-> "raise", has_id |-> FALSE, id |-> NoUser,
     match_score |-> NoScore, reasoning |-> NoReason]

OracleMalformed ==
    [kind |-> "malformed", has_id |-> FALSE, id |-> NoUser,
     match_score |-> NoScore, reasoning |-> NoReason]

OracleNames(i) ==
    [kind |-> "json", has_id |-> TRUE, id |-> i, match_score |-> 87, reasoning |-> "ai"]

OracleReplies ==
    {OracleRaises, OracleMalformed,
     [kind |-> "json", has_id |-> FALSE, id |-> NoUser,
      match_score |-> 87, reasoning |-> "ai"],
     [kind |-> "json", has_id |-> TRUE, id |-> 3,
      match_score |-> NoScore, reasoning |-> NoReason]}
    \cup {OracleNames(i) : i \in UserIds \cup {NoUser, BogusUser}}

RECURSIVE MinScanLast(_, _, _)
\* a scan that also replaces the kept candidate by an equal one: it ends on
\* the last minimal candidate, which min() does not
MinScanLast(cs, i, best) ==
    IF i > Len(cs) THEN best
    ELSE MinScanLast(cs, i + 1, IF cs[i].workload <= cs[best].workload THEN i ELSE best)

RECURSIVE MinScan(_, _, _)
\* min(candidates, key=lambda c: c.get('workload', 100)): the scan keeps the
\* first candidate and replaces it only by a strictly smaller one.  Every
\* snapshot _prepare_candidate_data builds carries 'workload'.
MinScan(cs, i, best) ==
    IF i > Len(cs) THEN best
    ELSE MinScan(cs, i + 1, IF cs[i].workload < cs[best].workload THEN i ELSE best)

\* GeminiService._fallback_recommendation
fallback_recommendation(cs) ==
    IF Len(cs) = 0 THEN ErrorRec("Nenhum candidato disponivel")
    ELSE LET best_candidate == cs[MinScan(cs, 2, 1)] IN
         [kind |-> "result", error |-> "", has_id |-> TRUE,
          recommended_user_id |-> best_candidate.id, match_score |-> 50,
          reasoning |-> FallbackReason, warnings |-> <<FallbackWarning>>]

\* GeminiService._parse_json_response, on the text of a reply that arrived
parse_json_response(o) ==
    IF o.kind = "malformed" THEN ErrorRec("Erro ao processar resposta da IA")
    ELSE [kind |-> "result", error |-> "", has_id |-> o.has_id,
          recommended_user_id |-> IF o.has_id THEN o.id ELSE NoUser,
          match_score |-> o.match_score, reasoning |-> o.reasoning,
          warnings |-> <<>>]

\* an engine without the except branch's fallback: a call that raises is
\* answered with an error
generate_task_recommendation_unrecovered(cs, o) ==
    IF o.kind = "raise" THEN ErrorRec("IA indisponivel")
    ELSE parse_json_response(o)

\* GeminiService.generate_task_recommendation
generate_task_recommendation(cs, o) ==
    IF o.kind = "raise" THEN fallback_recommendation(cs)
    ELSE parse_json_response(o)

----------------------------------------------------------------------------
(* Wellbeing analysis: app/services/sentiment_analysis.py *)

\* _mood_to_score and _energy_to_score map the five levels of MoodLevel and
\* EnergyLevel onto 1..5; a check is kept as its two scores
LevelScores == 1..5

RECURSIVE SeqSum(_)
SeqSum(q) == IF q = <<>> THEN 0 ELSE Head(q) + SeqSum(Tail(q))

\* a trend test that drops the 0.5 margin: any lower recent mean is a decline
check_declining_trend_without_margin(scores) ==
    IF Len(scores) < 3 THEN FALSE
    ELSE SeqSum(SubSeq(scores, Len(scores) - 2, Len(scores)))
            < SeqSum(SubSeq(scores, 1, 3))

\* SentimentAnalysisService._check_declining_trend.  avg_recent < avg_older - 0.5
\* with both averages over three integers is, times six,
\* 2 * sum(recent) < 2 * sum(older) - 3; the float quotients are at least 1/6
\* away from the margin, far beyond rounding.
check_declining_trend(scores) ==
    IF Len(scores) < 3 THEN FALSE
    ELSE LET recent == SubSeq(scores, Len(scores) - 2, Len(scores))
             older == SubSeq(scores, 1, 3)
         IN  2 * SeqSum(recent) < 2 * SeqSum(older) - 3

\* the response of the wellbeing analysis before any call
NoBurnout ==
    [kind |-> "none", user_id |-> NoUser, has_pattern |-> FALSE, risk_score |-> NoScore,
     severity |-> NoReason, declining_mood |-> FALSE, declining_energy |-> FALSE,
     consistent_low_mood |-> FALSE, consistent_low_energy |-> FALSE]

MoodScores(cs) == [k \in 1..Len(cs) |-> cs[k].mood]

EnergyScores(cs) == [k \in 1..Len(cs) |-> cs[k].energy]

\* sum(1 for c in checks if score <= 2) / len(checks) > 0.5
consistent_low(scores) ==
    2 * Cardinality({k \in 1..Len(scores) : scores[k] <= 2}) > Len(scores)

\* a risk score that weighs the four patterns equally
risk_score_equal_weights(dm, de, lm, le) ==
    (IF dm THEN 25 ELSE 0) + (IF de THEN 25 ELSE 0)
      + (IF lm THEN 25 ELSE 0) + (IF le THEN 25 ELSE 0)

\* detect_burnout_patterns, lines 281-285
risk_score(dm, de, lm, le) ==
    (IF dm THEN 30 ELSE 0) + (IF de THEN 30 ELSE 0)
      + (IF lm THEN 20 ELSE 0) + (IF le THEN 20 ELSE 0)

\* line 293
severity(score) ==
    IF score >= 80 THEN "high" ELSE IF score >= 50 THEN "medium" ELSE "low"

\* the default of the threshold parameter
DefaultThreshold == 70

\* lines 273-295: the analysis of a window of at least three checks
burnout_analysis(cs) ==
    LET dm == check_declining_trend(MoodScores(cs))
        de == check_declining_trend(EnergyScores(cs))
        lm == consistent_low(MoodScores(cs))
        le == consistent_low(EnergyScores(cs))
        score == risk_score(dm, de, lm, le)
    IN  [kind |-> "result", has_pattern |-> score >= DefaultThreshold,
         risk_score |-> score, severity |-> severity(score),
         declining_mood |-> dm, declining_energy |-> de,
         consistent_low_mood |-> lm, consistent_low_energy |-> le]

\* lines 266-270
InsufficientData == [NoBurnout EXCEPT !.kind = "insufficient_data"]

\* a detection that judges a window of two checks
detect_burnout_patterns_from_two(cs) ==
    IF Len(cs) < 2 THEN InsufficientData ELSE burnout_analysis(cs)

\* SentimentAnalysisService.detect_burnout_patterns on the checks of the window
detect_burnout_patterns(cs) ==
    IF Len(cs) < 3 THEN InsufficientData ELSE burnout_analysis(cs)

\* the person whose wellbeing checks the variable checks holds
CheckOwner == 2

\* lines 259-264: the checks of the window whose user_id is the one asked for
checks_of(cs, user_id) == IF user_id = CheckOwner THEN cs ELSE <<>>

\* round(num / den * scale, 0): Python rounds a tie to the even neighbour
round_half_even(num, den) ==
    LET q == num \div den
        r == num % den
    IN  IF 2 * r > den THEN q + 1
        ELSE IF 2 * r < den THEN q
        ELSE IF q % 2 = 0 THEN q ELSE q + 1

\* WellbeingCheck.is_concerning: mood very_bad or bad, energy exhausted or low
is_concerning(c) == c.mood <= 2 \/ c.energy <= 2

\* Counter(values) as a dict
Counter(scores) ==
    [v \in {scores[k] : k \in 1..Len(scores)} |->
        Cardinality({k \in 1..Len(scores) : scores[k] = v})]

\* the keys of the dict _calculate_local_metrics returns
LocalKeys ==
    {"average_mood", "average_energy", "mood_distribution", "energy_distribution",
     "concerning_checks", "concerning_percentage"}

\* SentimentAnalysisService._calculate_local_metrics on a non-empty history;
\* the averages in hundredths and the percentage in tenths
calculate_local_metrics(cs) ==
    LET concerning == Cardinality({k \in 1..Len(cs) : is_concerning(cs[k])}) IN
    [average_mood |-> round_half_even(SeqSum(MoodScores(cs)) * 100, Len(cs)),
     average_energy |-> round_half_even(SeqSum(EnergyScores(cs)) * 100, Len(cs)),
     mood_distribution |-> Counter(MoodScores(cs)),
     energy_distribution |-> Counter(EnergyScores(cs)),
     concerning_checks |-> concerning,
     concerning_percentage |-> round_half_even(concerning * 1000, Len(cs))]

\* GeminiService._fallback_wellbeing_analysis
fallback_wellbeing_analysis ==
    [sentiment_score |-> 0, burnout_risk |-> 0, trend |-> "stable",
     main_concerns |-> <<"Analise de IA indisponivel">>,
     positive_aspects |-> <<>>, recommendations |-> <<>>,
     manager_alert |-> "<null>",
     motivational_message |-> "Continue se cuidando! Sua saude e importante."]

\* GeminiService.analyze_wellbeing_trend: what comes back from the oracle call
\* and _parse_json_response.  A reply is the call raising, a text that is no
\* JSON, a JSON value that is no object, or a JSON object of any keys.
analyze_wellbeing_trend(o) ==
    CASE o.kind = "raise" -> [kind |-> "dict", body |-> fallback_wellbeing_analysis]
      [] o.kind = "malformed" ->
            [kind |-> "dict",
             body |-> [error |-> "Erro ao processar resposta da IA",
                       raw_response |-> "text"]]
      [] o.kind = "json_list" -> [kind |-> "list", body |-> <<>>]
      [] o.kind = "json" -> [kind |-> "dict", body |-> o.body]

\* {**local_analysis, **ai_analysis, ...}: a key set later replaces the same
\* key set earlier (f @@ g keeps f's value where both have the key)
combined_analysis(local_analysis, ai_analysis, user_id, check_ins_count) ==
    [user_id |-> user_id, check_ins_count |-> check_ins_count]
        @@ ai_analysis @@ local_analysis

\* SentimentAnalysisService.analyze_user_wellbeing: the dict returned and the
\* AI columns written onto the latest check
analyze_user_wellbeing(U, cs, user_id, o) ==
    IF user_id \notin DOMAIN U
    THEN [kind |-> "error", result |-> [error |-> "Usuario nao encontrado"],
          saved |-> <<>>]
    ELSE IF checks_of(cs, user_id) = <<>>
    THEN [kind |-> "no_data",
          result |-> [user_id |-> user_id,
                      message |-> "Sem dados de bem-estar disponiveis"],
          saved |-> <<>>]
    ELSE LET wellbeing_history == checks_of(cs, user_id)
             local_analysis == calculate_local_metrics(wellbeing_history)
             ai == analyze_wellbeing_trend(o)
         IN  IF ai.kind # "dict"
             \* ** of a value that is no mapping raises TypeError: line 110
             THEN [kind |-> "error", result |-> [error |-> "TypeError"], saved |-> <<>>]
             ELSE [kind |-> "analysis",
                   result |-> combined_analysis(local_analysis, ai.body, user_id,
                                                Len(wellbeing_history)),
                   saved |-> IF "sentiment_score" \in DOMAIN ai.body
                             THEN <<ai.body["sentiment_score"]>> ELSE <<>>]

----------------------------------------------------------------------------
(* Task distribution service, read side: app/services/task_distribution.py *)

\* the filter without its User.is_active test
get_eligible_candidates_any_activity(U, team_id) ==
    SortedSeq({i \in DOMAIN U :
        /\ U[i].role = "colaborador"
        /\ (team_id # NoUser => U[i].manager_id = team_id)
        /\ available_hours(U[i]) > 0})

\* TaskDistributionService._get_eligible_candidates
get_eligible_candidates(U, team_id) ==
    SortedSeq({i \in DOMAIN U :
        /\ U[i].role = "colaborador"
        /\ U[i].is_active
        /\ (team_id # NoUser => U[i].manager_id = team_id)
        /\ available_hours(U[i]) > 0})

\* TaskDistributionService._prepare_candidate_data: the fields the fallback reads
prepare_candidate_data(U, i) == [id |-> i, workload |-> workload_tenths(U[i])]

\* the candidate snapshots recommend_assignee hands to the engine
candidates_data(U, team_id) ==
    LET candidates == get_eligible_candidates(U, team_id) IN
    [k \in 1..Len(candidates) |-> prepare_candidate_data(U, candidates[k])]

\* recommend_assignee without lines 50-51: an empty candidate list goes to the engine
recommend_assignee_unchecked(U, T, task_id, team_id, o) ==
    IF task_id \notin DOMAIN T THEN ErrorRec("Tarefa nao encontrada")
    ELSE LET candidates == get_eligible_candidates(U, team_id) IN
         generate_task_recommendation(
             [k \in 1..Len(candidates) |-> prepare_candidate_data(U, candidates[k])], o)

\* TaskDistributionService.recommend_assignee
recommend_assignee(U, T, task_id, team_id, o) ==
    IF task_id \notin DOMAIN T THEN ErrorRec("Tarefa nao encontrada")
    ELSE LET candidates == get_eligible_candidates(U, team_id) IN
         IF Len(candidates) = 0 THEN ErrorRec("Nenhum colaborador disponivel")
         ELSE generate_task_recommendation(
                  [k \in 1..Len(candidates) |-> prepare_candidate_data(U, candidates[k])], o)

\* a request that asks the oracle again when its first call raised
recommendation_request_retrying(U, T, task_id, team_id, stream) ==
    LET candidates == get_eligible_candidates(U, team_id)
        called == task_id \in DOMAIN T /\ Len(candidates) > 0
        retried == called /\ stream[1].kind = "raise"
    IN  [rec |-> recommend_assignee(U, T, task_id, team_id,
                                    IF retried THEN stream[2] ELSE stream[1]),
         oracle |-> IF called THEN stream[1].kind ELSE "none",
         oracle_calls |-> IF retried THEN 2 ELSE IF called THEN 1 ELSE 0]

\* One recommend_assignee request against an oracle whose n-th call of
\* self.model.generate_content would be answered by stream[n].  Line 62 is
\* the only call of generate_task_recommendation and line 51 of
\* gemini_service.py its only call of the oracle, neither in a loop: the
\* request consumes stream[1] when it gets that far, and nothing else.
recommendation_request(U, T, task_id, team_id, stream) ==
    LET candidates == get_eligible_candidates(U, team_id)
        called == task_id \in DOMAIN T /\ Len(candidates) > 0
    IN  [rec |-> recommend_assignee(U, T, task_id, team_id, stream[1]),
         oracle |-> IF called THEN stream[1].kind ELSE "none",
         oracle_calls |-> IF called THEN 1 ELSE 0]

----------------------------------------------------------------------------
(* The store and the session *)

\* recommend_assignee reaches line 62, the call of the oracle, only past the
\* two early returns of lines 43-44 and 50-51
oracle_called(U, T, task_id, team_id) ==
    task_id \in DOMAIN T /\ Len(get_eligible_candidates(U, team_id)) > 0

\* what the oracle did during a call, "none" when it was not called
OracleUse(called, o) == IF called THEN o.kind ELSE "none"

\* the columns of a tasks row that the engine reads or writes
NewTask(priority, estimated_hours, assigned_to) ==
    [status |-> "pending", priority |-> priority, assigned_to |-> assigned_to,
     estimated_hours |-> estimated_hours, ai_match_score |-> NoScore,
     ai_recommendation_reason |-> NoReason, started_at |-> NoTime,
     completed_at |-> NoTime]

Store(U, T) == [users |-> U, tasks |-> T]

\* tasks.assigned_to is a foreign key to users.id
ForeignKeysHold(db) ==
    \A t \in DOMAIN db.tasks : db.tasks[t].assigned_to \in DOMAIN db.users \cup {NoUser}

\* db.commit() of the staged writes; a commit that fails (the store refuses it:
\* db_ok is FALSE, or a foreign key does not hold) raises and the handler's
\* except branch runs db.rollback().  The task routes are modelled with a
\* store that refuses a commit only for a foreign key.
Committed(staged, db_ok) == db_ok /\ ForeignKeysHold(staged)

\* a session whose failed commit keeps the staged task rows (no db.rollback())
db_commit_without_rollback(before, staged, db_ok) ==
    IF Committed(staged, db_ok) THEN staged ELSE Store(before.users, staged.tasks)

db_commit(before, staged, db_ok) ==
    IF Committed(staged, db_ok) THEN staged ELSE before

\* the response of a handler, as far as the properties read it; oracle is what
\* the recommendation oracle did during the call ("none": it was not usable)
Response(op, ok, task_id, team_id, flag, oracle, rec, moves) ==
    [op |-> op, ok |-> ok, task_id |-> task_id, team_id |-> team_id,
     flag |-> flag, oracle |-> oracle, rec |-> rec, moves |-> moves]

LoadsBounded(U) == \A i \in DOMAIN U : U[i].current_workload <= MaxLoad

IsManager(U, i) == U[i].role \in {"gestor", "admin"}

----------------------------------------------------------------------------
(* Task routes: app/routes/tasks.py *)

\* create_task: the rows as staged before db.commit()
create_task_writes(U, T, id, priority, estimated_hours, assigned_to) ==
    Store(IF assigned_to # NoUser /\ estimated_hours # NoHours /\ assigned_to \in DOMAIN U
          THEN [U EXCEPT ![assigned_to].current_workload = @ + estimated_hours]
          ELSE U,
          T @@ (id :> NewTask(priority, estimated_hours, assigned_to)))

\* create_task refuses an assignee that does not exist (404) or that a gestor
\* does not manage (403)
create_task_allowed(U, current_user, assigned_to) ==
    assigned_to # NoUser =>
        /\ assigned_to \in DOMAIN U
        /\ (U[current_user].role = "gestor" => U[assigned_to].manager_id = current_user)

CreateTask(Priorities) ==
    \E current_user \in DOMAIN users, priority \in Priorities,
       estimated_hours \in 0..MaxHours, assigned_to \in DOMAIN users \cup {NoUser} :
        /\ users[current_user].is_active /\ IsManager(users, current_user)
        /\ DOMAIN tasks # TaskIds
        /\ LET id == MinOf(TaskIds \ DOMAIN tasks)
               staged == IF create_task_allowed(users, current_user, assigned_to)
                         THEN create_task_writes(users, tasks, id, priority,
                                                 estimated_hours, assigned_to)
                         ELSE Store(users, tasks)
               done == /\ create_task_allowed(users, current_user, assigned_to)
                       /\ Committed(staged, TRUE)
               after == db_commit(Store(users, tasks), staged, TRUE)
           IN  /\ users' = after.users
               /\ tasks' = after.tasks
               /\ last' = Response("create_task", done, 0, NoUser, FALSE, "none", NoRec, <<>>)
        /\ LoadsBounded(users')
        /\ UNCHANGED <<cands, fb, checks, burnout, aside>>

\* update_task, lines 339-368: the row as staged before db.commit(); a field
\* the request does not carry is None (NoStatus, NoHours, NoUser)
NoStatus == "<null>"

\* lines 364-368 without their "and not task.started_at" and
\* "and not task.completed_at" tests
update_task_row_restamping(task, is_assigned, is_manager, p, now) ==
    LET t1 == IF is_assigned \/ is_manager
              THEN [task EXCEPT !.status = IF p.status # NoStatus THEN p.status ELSE @]
              ELSE task
        t2 == IF is_manager
              THEN [t1 EXCEPT
                      !.priority = IF p.priority # NoStatus THEN p.priority ELSE @,
                      !.estimated_hours =
                          IF p.estimated_hours # NoHours THEN p.estimated_hours ELSE @,
                      !.assigned_to = IF p.assigned_to # NoUser THEN p.assigned_to ELSE @]
              ELSE t1
        t3 == IF p.status = "in_progress" THEN [t2 EXCEPT !.started_at = now] ELSE t2
    IN  IF p.status = "completed" THEN [t3 EXCEPT !.completed_at = now] ELSE t3

update_task_row(task, is_assigned, is_manager, p, now) ==
    LET t1 == IF (is_assigned /\ ~is_manager) \/ is_manager
              THEN [task EXCEPT !.status = IF p.status # NoStatus THEN p.status ELSE @]
              ELSE task
        t2 == IF is_manager
              THEN [t1 EXCEPT
                      !.priority = IF p.priority # NoStatus THEN p.priority ELSE @,
                      !.estimated_hours =
                          IF p.estimated_hours # NoHours THEN p.estimated_hours ELSE @,
                      !.assigned_to = IF p.assigned_to # NoUser THEN p.assigned_to ELSE @]
              ELSE t1
        t3 == IF p.status = "in_progress" /\ t2.started_at = NoTime
              THEN [t2 EXCEPT !.started_at = now] ELSE t2
    IN  IF p.status = "completed" /\ t3.completed_at = NoTime
        THEN [t3 EXCEPT !.completed_at = now] ELSE t3

Payload(status, priority, estimated_hours, assigned_to) ==
    [status |-> status, priority |-> priority,
     estimated_hours |-> estimated_hours, assigned_to |-> assigned_to]

UpdateTask(Payloads, Times) ==
    \E current_user \in DOMAIN users, task_id \in TaskIds, p \in Payloads,
       now \in Times :
        /\ users[current_user].is_active
        /\ LET found == task_id \in DOMAIN tasks
               is_assigned == found /\ tasks[task_id].assigned_to = current_user
               is_manager == IsManager(users, current_user)
               staged == IF found /\ (is_assigned \/ is_manager)
                         THEN Store(users, [tasks EXCEPT ![task_id] =
                                  update_task_row(@, is_assigned, is_manager, p, now)])
                         ELSE Store(users, tasks)
               done == found /\ (is_assigned \/ is_manager) /\ Committed(staged, TRUE)
               after == db_commit(Store(users, tasks), staged, TRUE)
           IN  /\ users' = after.users
               /\ tasks' = after.tasks
               /\ last' = Response("update_task", done, 0, NoUser, FALSE, "none", NoRec, <<>>)
        /\ UNCHANGED <<cands, fb, checks, burnout, aside>>

\* delete_task, lines 416-426
delete_task_writes(U, T, task_id) ==
    LET task == T[task_id] IN
    Store(IF task.assigned_to # NoUser /\ task.estimated_hours # NoHours
             /\ task.assigned_to \in DOMAIN U
          THEN [U EXCEPT ![task.assigned_to].current_workload =
                    Max(0, @ - task.estimated_hours)]
          ELSE U,
          [t \in DOMAIN T \ {task_id} |-> T[t]])

DeleteTask ==
    \E current_user \in DOMAIN users, task_id \in TaskIds :
        /\ users[current_user].is_active /\ IsManager(users, current_user)
        /\ LET found == task_id \in DOMAIN tasks
               staged == IF found THEN delete_task_writes(users, tasks, task_id)
                         ELSE Store(users, tasks)
               done == found /\ Committed(staged, TRUE)
               after == db_commit(Store(users, tasks), staged, TRUE)
           IN  /\ users' = after.users
               /\ tasks' = after.tasks
               /\ last' = Response("delete_task", done, 0, NoUser, FALSE, "none", NoRec, <<>>)
        /\ UNCHANGED <<cands, fb, checks, burnout, aside>>

----------------------------------------------------------------------------
(* Task distribution service, write side: app/services/task_distribution.py *)

RecommendAssignee(Replies) ==
    \E task_id \in TaskIds, team_id \in DOMAIN users \cup {NoUser}, o \in Replies :
        LET rec == recommend_assignee(users, tasks, task_id, team_id, o) IN
        /\ last' = Response("recommend_assignee", rec.kind # "error", task_id, team_id,
                            FALSE,
                            OracleUse(oracle_called(users, tasks, task_id, team_id), o),
                            rec, <<>>)
        /\ UNCHANGED <<users, tasks, cands, fb, checks, burnout, aside>>

\* lines 108-115 without lines 117-120: the assignee's load is left alone
auto_distribute_task_writes_without_load(U, T, task_id, rec) ==
    Store(U, [T EXCEPT ![task_id] =
                 [@ EXCEPT !.assigned_to = rec.recommended_user_id,
                           !.status = "pending",
                           !.ai_match_score =
                               IF rec.match_score = NoScore THEN 0 ELSE rec.match_score,
                           !.ai_recommendation_reason =
                               IF rec.reasoning = NoReason THEN "" ELSE rec.reasoning]])

\* auto_distribute_task, lines 108-120: the rows as staged before db.commit()
auto_distribute_task_writes(U, T, task_id, rec) ==
    LET user_id == rec.recommended_user_id
        task == [T[task_id] EXCEPT
                    !.assigned_to = user_id,
                    !.status = "pending",
                    !.ai_match_score =
                        IF rec.match_score = NoScore THEN 0 ELSE rec.match_score,
                    !.ai_recommendation_reason =
                        IF rec.reasoning = NoReason THEN "" ELSE rec.reasoning]
    IN  Store(IF user_id \in DOMAIN U /\ task.estimated_hours # NoHours
              THEN [U EXCEPT ![user_id].current_workload = @ + task.estimated_hours]
              ELSE U,
              [T EXCEPT ![task_id] = task])

AutoDistribute(Replies) ==
    \E task_id \in TaskIds, auto_assign \in BOOLEAN, o \in Replies :
        LET before == Store(users, tasks)
            rec == recommend_assignee(users, tasks, task_id, NoUser, o)
            assigns == rec.kind # "error" /\ auto_assign /\ rec.has_id
            staged == IF assigns
                      THEN auto_distribute_task_writes(users, tasks, task_id, rec)
                      ELSE before
        IN  \* db.commit() runs only when the task is assigned
            \E db_ok \in IF assigns THEN BOOLEAN ELSE {TRUE} :
                LET after == db_commit(before, staged, db_ok)
                    failed == assigns /\ ~Committed(staged, db_ok)
                IN  /\ users' = after.users
                    /\ tasks' = after.tasks
                    /\ last' = Response("auto_distribute_task", assigns /\ ~failed,
                                        task_id, NoUser, auto_assign,
                                        OracleUse(oracle_called(users, tasks, task_id, NoUser), o),
                                        IF failed THEN ErrorRec("commit") ELSE rec, <<>>)
                    /\ LoadsBounded(users')
                    /\ UNCHANGED <<cands, fb, checks, burnout, aside>>

\* ORDER BY Task.priority: the position of a priority in the TaskPriority enum
PriorityRank(p) ==
    CASE p = "low" -> 1 [] p = "medium" -> 2 [] p = "high" -> 3 [] p = "urgent" -> 4

\* ORDER BY Task.priority where the column holds the member names as text
\* (LOW, MEDIUM, HIGH, URGENT): the position of the name in the alphabet
NameRank(p) ==
    CASE p = "high" -> 1 [] p = "low" -> 2 [] p = "medium" -> 3 [] p = "urgent" -> 4

\* SQLEnum(TaskPriority) is a native enum type, ordered as declared, on a
\* store that has one and a text column, ordered as text, on the others; the
\* store is whatever DATABASE_URL names
PriorityOrders ==
    {[p \in TaskPriority |-> PriorityRank(p)], [p \in TaskPriority |-> NameRank(p)]}

\* pending_tasks[:3]
TopTasks == 3

RECURSIVE ByPriorityDesc(_, _, _)
\* the task ids of S, greatest under the store's order of the column first
ByPriorityDesc(rank, T, S) ==
    IF S = {} THEN <<>>
    ELSE LET top == {t \in S : \A x \in S :
                        rank[T[x].priority] <= rank[T[t].priority]}
             m == MinOf(top)
         IN  <<m>> \o ByPriorityDesc(rank, T, S \ {m})

\* rebalance_team_workload, lines 170-175: the tasks considered for one member
pending_tasks(rank, T, user_id) ==
    LET all == ByPriorityDesc(rank, T, {t \in DOMAIN T :
                   T[t].assigned_to = user_id /\ T[t].status = "pending"})
    IN  SubSeq(all, 1, Min(TopTasks, Len(all)))

\* rebalance_team_workload, lines 154-157
team_members(U, team_id) ==
    {i \in DOMAIN U : U[i].manager_id = team_id /\ U[i].is_active}

RECURSIVE Considered(_, _, _, _)
\* lines 168-175: the <<member, task>> pairs in the order the loops visit them
Considered(rank, U, T, overloaded) ==
    IF overloaded = <<>> THEN <<>>
    ELSE LET pt == pending_tasks(rank, T, Head(overloaded)) IN
         [k \in 1..Len(pt) |-> <<Head(overloaded), pt[k]>>]
            \o Considered(rank, U, T, Tail(overloaded))

RECURSIVE recommendations_to_anyone(_, _, _, _, _)
\* lines 177-189 without the test of line 181
recommendations_to_anyone(U, T, team_id, pairs, oracle) ==
    IF pairs = <<>> THEN <<>>
    ELSE LET overloaded_user == Head(pairs)[1]
             task_id == Head(pairs)[2]
             rec == recommend_assignee(U, T, task_id, team_id, oracle[task_id])
         IN  (IF rec.has_id
              THEN <<[task_id |-> task_id, from_user |-> overloaded_user,
                      to_user_id |-> rec.recommended_user_id,
                      reason |-> rec.reasoning, match_score |-> rec.match_score]>>
              ELSE <<>>)
             \o recommendations_to_anyone(U, T, team_id, Tail(pairs), oracle)

RECURSIVE Recommendations(_, _, _, _, _)
\* lines 177-189: the proposed moves; oracle[t] is the oracle's reply when the
\* recommendation for task t is asked
Recommendations(U, T, team_id, pairs, oracle) ==
    IF pairs = <<>> THEN <<>>
    ELSE LET overloaded_user == Head(pairs)[1]
             task_id == Head(pairs)[2]
             rec == recommend_assignee(U, T, task_id, team_id, oracle[task_id])
         IN  (IF rec.has_id /\ rec.recommended_user_id # overloaded_user
              THEN <<[task_id |-> task_id, from_user |-> overloaded_user,
                      to_user_id |-> rec.recommended_user_id,
                      reason |-> rec.reasoning, match_score |-> rec.match_score]>>
              ELSE <<>>)
             \o Recommendations(U, T, team_id, Tail(pairs), oracle)

\* an apply step that reassigns the tasks and leaves the load counters alone
apply_moves_keeping_loads(db, moves) ==
    Store(db.users,
          [t \in DOMAIN db.tasks |->
              IF \E k \in 1..Len(moves) :
                     moves[k].task_id = t /\ moves[k].to_user_id \in DOMAIN db.users
              THEN [db.tasks[t] EXCEPT !.assigned_to =
                       moves[CHOOSE k \in 1..Len(moves) : moves[k].task_id = t].to_user_id]
              ELSE db.tasks[t]])

RECURSIVE apply_moves_by_task_id(_, _)
\* an apply step whose query for new_user filters on the move's task id
\* instead of its to_user_id
apply_moves_by_task_id(db, moves) ==
    IF moves = <<>> THEN db
    ELSE LET m == Head(moves)
             found == /\ m.task_id \in DOMAIN db.tasks
                      /\ m.from_user \in DOMAIN db.users
                      /\ m.task_id \in DOMAIN db.users
             h == IF found THEN db.tasks[m.task_id].estimated_hours ELSE NoHours
             T1 == IF found
                   THEN [db.tasks EXCEPT ![m.task_id].assigned_to = m.task_id]
                   ELSE db.tasks
             U1 == IF found /\ h # NoHours
                   THEN [[db.users EXCEPT ![m.from_user].current_workload = @ - h]
                                   EXCEPT ![m.task_id].current_workload = @ + h]
                   ELSE db.users
         IN  apply_moves_by_task_id(Store(U1, T1), Tail(moves))

RECURSIVE apply_moves(_, _)
\* lines 193-209: the rows as staged before db.commit()
apply_moves(db, moves) ==
    IF moves = <<>> THEN db
    ELSE LET m == Head(moves)
             found == /\ m.task_id \in DOMAIN db.tasks
                      /\ m.from_user \in DOMAIN db.users
                      /\ m.to_user_id \in DOMAIN db.users
             h == IF found THEN db.tasks[m.task_id].estimated_hours ELSE NoHours
             T1 == IF found
                   THEN [db.tasks EXCEPT ![m.task_id].assigned_to = m.to_user_id]
                   ELSE db.tasks
             U1 == IF found /\ h # NoHours
                   THEN [[db.users EXCEPT ![m.from_user].current_workload = @ - h]
                                   EXCEPT ![m.to_user_id].current_workload = @ + h]
                   ELSE db.users
         IN  apply_moves(Store(U1, T1), Tail(moves))

\* line 192 without its dry_run test
rebalance_applies_whenever_moves(dry_run, moves) == moves # <<>>

\* line 192
rebalance_applies(dry_run, moves) == ~dry_run /\ moves # <<>>

\* rebalance_team_workload on rows of any load
RebalanceTeamWorkload(Teams, Replies) ==
    \E team_id \in Teams, dry_run \in BOOLEAN, rank \in PriorityOrders :
        LET before == Store(users, tasks)
            members == team_members(users, team_id)
            overloaded == SortedSeq({i \in members : is_overloaded(users[i])})
            pairs == Considered(rank, users, tasks, overloaded)
        IN  \E oracle \in [{pairs[k][2] : k \in 1..Len(pairs)} -> Replies] :
                LET moves == Recommendations(users, tasks, team_id, pairs, oracle)
                    applies == members # {} /\ rebalance_applies(dry_run, moves)
                    staged == IF applies THEN apply_moves(before, moves) ELSE before
                IN  \* db.commit() runs only when the moves are applied
                    \E db_ok \in IF applies THEN BOOLEAN ELSE {TRUE} :
                        LET after == db_commit(before, staged, db_ok)
                            failed == applies /\ ~Committed(staged, db_ok)
                        IN  /\ users' = after.users
                            /\ tasks' = after.tasks
                            /\ last' = Response("rebalance_team_workload",
                                                members # {} /\ ~failed, 0, team_id,
                                                ~dry_run, "none", NoRec,
                                                IF members = {} \/ failed
                                                THEN <<>> ELSE moves)
                            /\ UNCHANGED <<cands, fb, checks, burnout, aside>>

Rebalance(Teams, Replies) ==
    RebalanceTeamWorkload(Teams, Replies) /\ LoadsBounded(users')

----------------------------------------------------------------------------
(* What the other handlers leave behind *)

\* no session is open
NoSessions == <<>>

\* no profile was read
NoProfile == [kind |-> "none"]

\* no wellbeing analysis was asked
NoAnalysis == [kind |-> "none"]
NoConsidered == [kind |-> "none"]

Idle ==
    /\ sessions = NoSessions
    /\ profile = NoProfile
    /\ analysis = NoAnalysis
    /\ considered = NoConsidered
    /\ oracle_calls = 0

----------------------------------------------------------------------------
(* The team the engine runs on, and the requests it receives *)

\* one gestor (1) and the two active collaborators of their team
InitUsers ==
    (1 :> [role |-> "gestor", is_active |-> TRUE, manager_id |-> NoUser,
           workload_capacity |-> 4, current_workload |-> 0])
 @@ (2 :> [role |-> "colaborador", is_active |-> TRUE, manager_id |-> 1,
           workload_capacity |-> 1, current_workload |-> 0])
 @@ (3 :> [role |-> "colaborador", is_active |-> TRUE, manager_id |-> 1,
           workload_capacity |-> 2, current_workload |-> 0])

EmptyTasks == [t \in {} |-> NewTask("medium", NoHours, NoUser)]

InitLast == Response("init", TRUE, 0, NoUser, FALSE, "none", NoRec, <<>>)

\* PUT /tasks/{id} bodies: one field at a time
StatusPayloads == {Payload(st, NoStatus, NoHours, NoUser) : st \in TaskStatus}
HoursPayloads == {Payload(NoStatus, NoStatus, h, NoUser) : h \in 1..MaxHours}
AssigneePayloads ==
    {Payload(NoStatus, NoStatus, NoHours, i) : i \in UserIds \cup {BogusUser}}

Init ==
    /\ users = InitUsers
    /\ tasks = EmptyTasks
    /\ last = InitLast
    /\ cands = <<>>
    /\ fb = NoRec
    /\ checks = <<>>
    /\ burnout = NoBurnout
    /\ Idle

\* POST /tasks/rebalance-team passes the id of the gestor who calls it
Managers == {i \in UserIds : InitUsers[i].is_active /\ IsManager(InitUsers, i)}

\* the oracle is down
FewReplies == {OracleRaises}

Next ==
    \/ CreateTask({"medium"})
    \/ UpdateTask({Payload("cancelled", NoStatus, NoHours, NoUser)}
                    \cup HoursPayloads
                    \cup {Payload(NoStatus, NoStatus, NoHours, i) : i \in {2, 3}}, {1})
    \/ DeleteTask
    \/ AutoDistribute(FewReplies)
    \/ Rebalance(Managers, FewReplies)

Spec == Init /\ [][Next]_vars

----------------------------------------------------------------------------
(* Stores the handlers are called on.  Because update_task changes an       *)
(* assignee, an estimate or a status without touching current_workload,     *)
(* every combination below of loads and task rows is reached from the       *)
(* empty store by create_task, update_task and delete_task.                 *)

SampleUsers ==
    {[InitUsers EXCEPT ![2].current_workload = a, ![3].current_workload = b] :
        a \in 0..MaxLoad, b \in 0..MaxLoad}

SampleTaskRows ==
    {[NewTask("medium", h, i) EXCEPT
         !.status = st, !.started_at = IF st = "in_progress" THEN 1 ELSE NoTime] :
        h \in 0..MaxHours, i \in {NoUser, 2, 3}, st \in {"pending", "in_progress"}}

SampleTasks == UNION {[D -> SampleTaskRows] : D \in SUBSET TaskIds}

\* one task row of any shape, alone or beside a second, pending row
OneTaskStores ==
    {(1 :> r) : r \in SampleTaskRows}
    \cup {(1 :> r) @@ (2 :> NewTask("medium", 1, 2)) : r \in SampleTaskRows}

SampleInit(Tasks) ==
    /\ users \in SampleUsers
    /\ tasks \in Tasks
    /\ last = InitLast
    /\ cands = <<>>
    /\ fb = NoRec
    /\ checks = <<>>
    /\ burnout = NoBurnout
    /\ Idle

\* the rebalancer alone, on any sampled store
RebalanceReplies ==
    {OracleRaises, OracleMalformed} \cup {OracleNames(i) : i \in {2, 3, BogusUser}}

NextRebalance == Rebalance(UserIds, RebalanceReplies)

SpecRebalance == SampleInit(SampleTasks) /\ [][NextRebalance]_vars

\* the assignment applier alone, called once on any sampled store
NextAuto == last = InitLast /\ AutoDistribute(OracleReplies)

SpecAuto == SampleInit(SampleTasks) /\ [][NextAuto]_vars

\* the recommendation engine alone, on any sampled store
NextRecommend == RecommendAssignee(OracleReplies)

SpecRecommend == SampleInit(OneTaskStores) /\ [][NextRecommend]_vars

----------------------------------------------------------------------------
(* The three entry points of the distribution service, each called once on *)
(* any sampled store                                                      *)

NextEngine ==
    /\ last = InitLast
    /\ \/ RecommendAssignee(OracleReplies)
       \/ AutoDistribute(OracleReplies)
       \/ Rebalance(UserIds, RebalanceReplies)

SpecEngine == SampleInit(SampleTasks) /\ [][NextEngine]_vars

----------------------------------------------------------------------------
(* The rebalancer, called once on a team of two with 40 hours of capacity  *)
(* each, of whom the first holds one pending task                          *)

\* person A is user 2 and person B is user 3
WeekUsers ==
    {[InitUsers EXCEPT ![2].workload_capacity = 40, ![2].current_workload = a,
                       ![3].workload_capacity = 40, ![3].current_workload = b] :
        a \in 36..40, b \in 9..11}

WeekTasks == {(1 :> NewTask(p, h, 2)) : p \in TaskPriority, h \in {2, 4}}

\* the oracle is down, or names person B
WeekReplies == {OracleRaises, OracleNames(3)}

InitWeek ==
    /\ users \in WeekUsers
    /\ tasks \in WeekTasks
    /\ last = InitLast
    /\ cands = <<>>
    /\ fb = NoRec
    /\ checks = <<>>
    /\ burnout = NoBurnout
    /\ Idle

NextWeek == last = InitLast /\ RebalanceTeamWorkload({1}, WeekReplies)

SpecWeek == InitWeek /\ [][NextWeek]_vars

----------------------------------------------------------------------------
(* GET wellbeing analysis of a person, over a short history *)

\* no check, one or two, each of a bad, a neutral or a very good mood and energy
ShortHistories ==
    UNION {[1..n -> [mood : {2, 3, 5}, energy : {2, 3, 5}]] : n \in 0..2}

\* the oracle answers with the fields it was asked for, or with those and a
\* field that has the name of a local metric
WellbeingReplies ==
    {[kind |-> "raise"], [kind |-> "malformed"], [kind |-> "json_list"],
     [kind |-> "json", body |-> [sentiment_score |-> 40, burnout_risk |-> 20]],
     [kind |-> "json", body |-> [trend |-> "declining"]],
     [kind |-> "json", body |-> [sentiment_score |-> 40, average_mood |-> 999]]}

InitWellbeing ==
    /\ users = InitUsers
    /\ tasks = EmptyTasks
    /\ last = InitLast
    /\ cands = <<>>
    /\ fb = NoRec
    /\ checks \in ShortHistories
    /\ burnout = NoBurnout
    /\ Idle

AnalyzeUserWellbeing ==
    \E user_id \in UserIds \cup {BogusUser}, o \in WellbeingReplies :
        /\ analysis = NoAnalysis
        /\ analysis' = analyze_user_wellbeing(users, checks, user_id, o)
                           @@ [user_id |-> user_id]
        /\ UNCHANGED <<users, tasks, last, cands, fb, checks, burnout, sessions,
                       profile, considered, oracle_calls>>

SpecWellbeing == InitWellbeing /\ [][AnalyzeUserWellbeing]_vars

----------------------------------------------------------------------------
(* One recommendation request and the calls it makes of the oracle *)

OracleStreams ==
    [1..MaxCalls -> {OracleRaises, OracleMalformed, OracleNames(2), OracleNames(3)}]

RequestRecommendation ==
    \E task_id \in TaskIds, team_id \in {NoUser, 1}, stream \in OracleStreams :
        LET run == recommendation_request(users, tasks, task_id, team_id, stream) IN
        /\ last = InitLast
        /\ last' = Response("recommend_assignee", run.rec.kind # "error", task_id,
                            team_id, FALSE, run.oracle, run.rec, <<>>)
        /\ oracle_calls' = run.oracle_calls
        /\ UNCHANGED <<users, tasks, cands, fb, checks, burnout, sessions, profile,
                       analysis, considered>>

SpecOracle == SampleInit(OneTaskStores) /\ [][RequestRecommendation]_vars

----------------------------------------------------------------------------
(* The tasks of one overloaded member that a rebalance run looks at *)

\* user 2 is at 100% of their capacity
ConsiderUsers == [InitUsers EXCEPT ![2].current_workload = 1]

\* the member's pending tasks of any priority, and tasks already started
ConsiderRows ==
    {NewTask(p, 1, 2) : p \in TaskPriority}
    \cup {[NewTask("medium", 1, 2) EXCEPT !.status = "in_progress", !.started_at = 1]}

InitConsider ==
    /\ users = ConsiderUsers
    /\ tasks \in [1..MaxPending -> ConsiderRows]
    /\ last = InitLast
    /\ cands = <<>>
    /\ fb = NoRec
    /\ checks = <<>>
    /\ burnout = NoBurnout
    /\ Idle

\* rebalance_team_workload, lines 163-175, for one overloaded member of a team
ConsiderTasks ==
    \E team_id \in Managers, rank \in PriorityOrders :
        \E overloaded_user \in {i \in team_members(users, team_id) : is_overloaded(users[i])} :
            /\ considered = NoConsidered
            /\ considered' = [kind |-> "considered", user_id |-> overloaded_user,
                              task_ids |-> pending_tasks(rank, tasks, overloaded_user)]
            /\ UNCHANGED <<users, tasks, last, cands, fb, checks, burnout, sessions,
                           profile, analysis, oracle_calls>>

SpecConsider == InitConsider /\ [][ConsiderTasks]_vars

----------------------------------------------------------------------------
(* GET /users/me/profile on a row of any capacity and load *)

\* user 2 with a capacity of 0 (never set through the API, which asks for at
\* least 1) up to MaxCapacity and a load from below zero to above the capacity
ProfileUsers ==
    {[InitUsers EXCEPT ![2].workload_capacity = c, ![2].current_workload = l] :
        c \in 0..MaxCapacity, l \in (-1)..(MaxCapacity + 1)}

InitProfile ==
    /\ users \in ProfileUsers
    /\ tasks = EmptyTasks
    /\ last = InitLast
    /\ cands = <<>>
    /\ fb = NoRec
    /\ checks = <<>>
    /\ burnout = NoBurnout
    /\ Idle

\* get_my_profile: the UserProfileResponse of the caller's row
GetMyProfile ==
    \E current_user \in UserIds :
        /\ users[current_user].is_active
        /\ profile = NoProfile
        /\ profile' = [kind |-> "profile", id |-> current_user,
                       workload_capacity |-> users[current_user].workload_capacity,
                       current_workload |-> users[current_user].current_workload,
                       workload_percentage |-> workload_percentage(users[current_user]),
                       available_hours |-> available_hours(users[current_user]),
                       is_overloaded |-> is_overloaded(users[current_user])]
        /\ UNCHANGED <<users, tasks, last, cands, fb, checks, burnout, sessions, analysis, considered, oracle_calls>>

SpecProfile == InitProfile /\ [][GetMyProfile]_vars

----------------------------------------------------------------------------
(* Two requests that apply a recommendation at the same time, each in a    *)
(* session of its own (get_db opens one per request).  The store gives     *)
(* read-committed isolation: a session sees what was committed when it     *)
(* reads, and its commit writes the rows it changed.                       *)

SessionIds == {1, 2}

\* the store increments the counter itself (SET current_workload = current_workload + h)
flushed_workload_in_store(stored, session) == stored + session.estimated_hours

\* line 120, user.current_workload += task.estimated_hours, adds to the value
\* this session loaded; the flush of line 122 writes that sum
flushed_workload(stored, session) == session.loaded_workload + session.estimated_hours

\* auto_distribute_task, lines 107-120, in session s: the task and the
\* recommended user are loaded and the writes are staged in the session
StageAssign ==
    \E s \in SessionIds \ DOMAIN sessions, user_id \in UserIds :
        /\ s \in DOMAIN tasks
        /\ users[user_id].role = "colaborador"
        /\ sessions' = sessions @@
              (s :> [pc |-> "staged", task_id |-> s, user_id |-> user_id,
                     estimated_hours |-> tasks[s].estimated_hours,
                     loaded_workload |-> users[user_id].current_workload])
        /\ UNCHANGED <<users, tasks, last, cands, fb, checks, burnout, profile, analysis, considered, oracle_calls>>

\* line 122, db.commit(), in session s
CommitAssign ==
    \E s \in DOMAIN sessions :
        LET session == sessions[s] IN
        /\ session.pc = "staged"
        /\ tasks' = [tasks EXCEPT ![session.task_id] =
                        [@ EXCEPT !.assigned_to = session.user_id, !.status = "pending"]]
        /\ users' = [users EXCEPT ![session.user_id].current_workload =
                        IF session.estimated_hours # NoHours
                        THEN flushed_workload(@, session) ELSE @]
        /\ sessions' = [sessions EXCEPT ![s].pc = "committed"]
        /\ last' = Response("auto_distribute_task", TRUE, session.task_id, NoUser,
                            TRUE, "none", NoRec, <<>>)
        /\ UNCHANGED <<cands, fb, checks, burnout, profile, analysis, considered, oracle_calls>>

InitRace ==
    /\ users \in SampleUsers
    /\ tasks \in [SessionIds -> {NewTask("medium", h, NoUser) : h \in 1..MaxHours}]
    /\ last = InitLast
    /\ cands = <<>>
    /\ fb = NoRec
    /\ checks = <<>>
    /\ burnout = NoBurnout
    /\ Idle

NextRace == StageAssign \/ CommitAssign

SpecRace == InitRace /\ [][NextRace]_vars

----------------------------------------------------------------------------
(* The life of a work item under PUT /tasks/{id}: item 1 was created for   *)
(* user 2                                                                  *)

InitStatus ==
    /\ users = [InitUsers EXCEPT ![2].current_workload = 1]
    /\ tasks = (1 :> NewTask("medium", 1, 2))
    /\ last = InitLast
    /\ cands = <<>>
    /\ fb = NoRec
    /\ checks = <<>>
    /\ burnout = NoBurnout
    /\ Idle

\* readings of datetime.now()
Times == {1, 2}

NextStatus == UpdateTask(StatusPayloads \cup AssigneePayloads, Times)

SpecStatus == InitStatus /\ [][NextStatus]_vars

----------------------------------------------------------------------------
(* The eligibility filter on any users table *)

UserRole == {"colaborador", "gestor", "admin"}

\* user 1 is a gestor; users 2 and 3 are rows of any role, activity and team,
\* with a load below, at or above their capacity
AnyUsers ==
    {[InitUsers EXCEPT ![2] = r2, ![3] = r3] :
        r2, r3 \in [role : UserRole, is_active : BOOLEAN, manager_id : {NoUser, 1},
                    workload_capacity : {MaxLoad},
                    current_workload : 0..(MaxLoad + 1)]}

InitEligible ==
    /\ users \in AnyUsers
    /\ tasks = (1 :> NewTask("medium", NoHours, NoUser))
    /\ last = InitLast
    /\ cands = <<>>
    /\ fb = NoRec
    /\ checks = <<>>
    /\ burnout = NoBurnout
    /\ Idle

\* recommend_assignee, lines 47-57: the candidates found for a team scope and
\* the snapshots made of them
QueryCandidates ==
    \E team_id \in UserIds \cup {NoUser} :
        /\ last = InitLast
        /\ cands' = candidates_data(users, team_id)
        /\ last' = Response("get_eligible_candidates", TRUE, 1, team_id, FALSE,
                            "none", NoRec, <<>>)
        /\ UNCHANGED <<users, tasks, fb, checks, burnout, aside>>

SpecEligible == InitEligible /\ [][QueryCandidates]_vars

----------------------------------------------------------------------------
(* The wellbeing analysis as a function of the checks of the window *)

\* every sequence of up to MaxScores mood scores, the energy being medium
ScoreLists ==
    UNION {[1..n -> [mood : LevelScores, energy : {3}]] : n \in 0..MaxScores}

InitTrend ==
    /\ users = InitUsers
    /\ tasks = EmptyTasks
    /\ last = InitLast
    /\ cands = <<>>
    /\ fb = NoRec
    /\ checks \in ScoreLists
    /\ burnout = NoBurnout
    /\ Idle

\* _check_declining_trend on the mood scores of the window
CheckDecliningTrend ==
    /\ burnout = NoBurnout
    /\ burnout' = [NoBurnout EXCEPT !.kind = "trend",
                      !.declining_mood = check_declining_trend(MoodScores(checks))]
    /\ UNCHANGED <<users, tasks, last, cands, fb, checks, aside>>

SpecTrend == InitTrend /\ [][CheckDecliningTrend]_vars

\* a bad, a medium and a very good level
SampleLevels == {2, 3, 5}

CheckLists ==
    UNION {[1..n -> [mood : SampleLevels, energy : SampleLevels]] : n \in 0..MaxChecks}

InitBurnout ==
    /\ users = InitUsers
    /\ tasks = EmptyTasks
    /\ last = InitLast
    /\ cands = <<>>
    /\ fb = NoRec
    /\ checks \in CheckLists
    /\ burnout = NoBurnout
    /\ Idle

DetectBurnout ==
    /\ burnout = NoBurnout
    /\ burnout' = detect_burnout_patterns(checks)
    /\ UNCHANGED <<users, tasks, last, cands, fb, checks, aside>>

SpecBurnout == InitBurnout /\ [][DetectBurnout]_vars

\* detect_burnout_patterns(user_id) for a person of the users table or for an
\* id that no row has
DetectBurnoutOf ==
    \E user_id \in UserIds \cup {BogusUser} :
        /\ burnout = NoBurnout
        /\ burnout' = [detect_burnout_patterns(checks_of(checks, user_id))
                          EXCEPT !.user_id = user_id]
        /\ UNCHANGED <<users, tasks, last, cands, fb, checks, aside>>

SpecDetect == InitBurnout /\ [][DetectBurnoutOf]_vars

----------------------------------------------------------------------------
(* The fallback rule as a function of the candidate list *)

CandIds == 1..MaxCands

\* round(workload_percentage, 1) in tenths of a percent; a load below zero
\* gives a workload below zero
Workloads == {-500, 0, 500, 1000}

CandLists ==
    UNION {{cs \in [1..n -> [id : CandIds, workload : Workloads]] :
               \A j, k \in 1..n : j # k => cs[j].id # cs[k].id} : n \in 0..MaxCands}

InitFallback ==
    /\ users = InitUsers
    /\ tasks = EmptyTasks
    /\ last = InitLast
    /\ cands \in CandLists
    /\ fb = NoRec
    /\ checks = <<>>
    /\ burnout = NoBurnout
    /\ Idle

CallFallback ==
    /\ fb = NoRec
    /\ fb' = fallback_recommendation(cands)
    /\ UNCHANGED <<users, tasks, last, cands, checks, burnout, aside>>

SpecFallback == InitFallback /\ [][CallFallback]_vars

----------------------------------------------------------------------------
(* Properties *)

Hours(T) == [t \in DOMAIN T |-> T[t].estimated_hours]

Load(U, i) == U[i].current_workload

IsOp(r, op) == r.op = op

\* C1: an operation that gives a work item of H hours to a person raises that
\* person's current load by exactly H, and one that takes it away (deletion,
\* reassignment) lowers it by exactly H: over any step, the load of a person
\* who gained or lost items changes by the hours gained minus the hours lost.
C1_AssignmentMovesLoadByHours ==
    [][\A i \in UserIds :
        LET gained == {t \in DOMAIN tasks' :
                         /\ tasks'[t].assigned_to = i
                         /\ (t \notin DOMAIN tasks \/ tasks[t].assigned_to # i)}
            lost == {t \in DOMAIN tasks :
                         /\ tasks[t].assigned_to = i
                         /\ (t \notin DOMAIN tasks' \/ tasks'[t].assigned_to # i)}
        IN  gained \cup lost # {} =>
                Load(users', i) - Load(users, i)
                    = SumOver(gained, Hours(tasks')) - SumOver(lost, Hours(tasks))]_vars

\* C2: in every reachable state each person's current load is the sum of the
\* estimated hours of the items assigned to that person that are neither
\* completed nor cancelled (so an unassigned item counts for nobody).
C2_LoadIsSumOfOpenItems ==
    \A i \in UserIds :
        Load(users, i) =
            SumOver({t \in DOMAIN tasks :
                        /\ tasks[t].assigned_to = i
                        /\ tasks[t].status \notin {"completed", "cancelled"}},
                    Hours(tasks))

\* C3: a person's current load is never negative.
C3_LoadNeverNegative == \A i \in UserIds : Load(users, i) >= 0

\* C4: a rebalance run with dry run leaves every person's load and every
\* work item unchanged, whatever the oracle replies and however many moves
\* the run proposes.
C4_DryRunMutatesNothing ==
    [][(IsOp(last', "rebalance_team_workload") /\ ~last'.flag)
          => (users' = users /\ tasks' = tasks)]_vars

\* a dry run that proposed two moves has returned
C4_Witness ==
    /\ IsOp(last, "rebalance_team_workload")
    /\ last.ok /\ ~last.flag
    /\ Len(last.moves) >= 2

MovedTasks(moves) == {moves[k].task_id : k \in 1..Len(moves)}

RECURSIVE MovedHours(_, _, _, _)
\* the hours of the moves whose field f (from_user or to_user_id) is person i
MovedHours(T, moves, f, i) ==
    IF moves = <<>> THEN 0
    ELSE (IF Head(moves)[f] = i THEN T[Head(moves).task_id].estimated_hours ELSE 0)
         + MovedHours(T, Tail(moves), f, i)

\* C5: a rebalance apply whose move list has N items changes the assignee of
\* exactly those N items, each to its destination, takes each item's hours
\* from its source person's load and adds them to its destination's, changes
\* no other load, and keeps the sum of all loads.
C5_ApplyMovesExactlyTheList ==
    [][(IsOp(last', "rebalance_team_workload") /\ last'.ok /\ last'.flag) =>
        LET moves == last'.moves IN
        /\ \A k \in 1..Len(moves) :
              tasks'[moves[k].task_id].assigned_to = moves[k].to_user_id
        /\ \A t \in DOMAIN tasks \ MovedTasks(moves) : tasks'[t] = tasks[t]
        /\ \A i \in UserIds :
              Load(users', i) = Load(users, i)
                                  - MovedHours(tasks, moves, "from_user", i)
                                  + MovedHours(tasks, moves, "to_user_id", i)
        /\ SumOver(UserIds, [i \in UserIds |-> Load(users', i)])
              = SumOver(UserIds, [i \in UserIds |-> Load(users, i)])]_vars

\* C6: the apply step of a rebalance run is all-or-nothing: when the run has
\* ended, either every move of its list is persisted or the store is as
\* before the run.
C6_ApplyIsAllOrNothing ==
    [][(IsOp(last', "rebalance_team_workload") /\ last'.flag) =>
        \/ (users' = users /\ tasks' = tasks)
        \/ \A k \in 1..Len(last'.moves) :
              tasks'[last'.moves[k].task_id].assigned_to = last'.moves[k].to_user_id]_vars

\* C7: applying a recommendation (auto-distribute with auto-assign) is atomic:
\* over the call, either the store is as before, or the call succeeded and the
\* assignee, the match score, the rationale and the assignee's load increment
\* are all in the store; a call that did not succeed (a persistence failure
\* included) leaves the work items and every load as before.
C7_AutoAssignIsAtomic ==
    [][IsOp(last', "auto_distribute_task") =>
        LET t == last'.task_id
            rec == last'.rec
            id == rec.recommended_user_id
        IN  /\ ~last'.ok => (users' = users /\ tasks' = tasks)
            /\ \/ (users' = users /\ tasks' = tasks)
               \/ /\ last'.ok
                  /\ tasks'[t].assigned_to = id
                  /\ tasks'[t].ai_match_score =
                        (IF rec.match_score = NoScore THEN 0 ELSE rec.match_score)
                  /\ tasks'[t].ai_recommendation_reason =
                        (IF rec.reasoning = NoReason THEN "" ELSE rec.reasoning)
                  /\ (id \in UserIds /\ tasks[t].estimated_hours # NoHours) =>
                        Load(users', id) = Load(users, id) + tasks[t].estimated_hours]_vars

\* an auto-assign whose commit the store refused has returned
C7_Witness ==
    /\ IsOp(last, "auto_distribute_task")
    /\ last.flag /\ ~last.ok
    /\ last.rec = ErrorRec("commit")
    /\ last.task_id \in DOMAIN tasks
    /\ tasks[last.task_id].estimated_hours # NoHours

\* C8: after a successful auto-distribute with auto-assign the work item's
\* assignee is the recommended person, its status is pending, its match score
\* and rationale are the recommendation's, the recommended person's load has
\* grown by the item's estimated hours (by nothing when the item has no
\* estimate) and nothing else changed; with auto-assign false nothing changes.
C8_AutoAssignEffects ==
    [][IsOp(last', "auto_distribute_task") =>
        LET t == last'.task_id
            rec == last'.rec
            id == rec.recommended_user_id
        IN  /\ ~last'.flag => (users' = users /\ tasks' = tasks)
            /\ last'.ok =>
                  /\ rec.has_id
                  /\ tasks'[t].assigned_to = id
                  /\ tasks'[t].status = "pending"
                  /\ rec.match_score # NoScore => tasks'[t].ai_match_score = rec.match_score
                  /\ rec.reasoning # NoReason =>
                        tasks'[t].ai_recommendation_reason = rec.reasoning
                  /\ \A u \in DOMAIN tasks \ {t} : tasks'[u] = tasks[u]
                  /\ \A i \in UserIds :
                        Load(users', i) =
                            Load(users, i)
                              + (IF i = id /\ tasks[t].estimated_hours # NoHours
                                 THEN tasks[t].estimated_hours ELSE 0)]_vars

\* an auto-assign of an item with an estimate to an existing person has succeeded
C8_Witness ==
    /\ IsOp(last, "auto_distribute_task")
    /\ last.flag /\ last.ok
    /\ last.rec.recommended_user_id \in UserIds
    /\ tasks[last.task_id].assigned_to = last.rec.recommended_user_id
    /\ tasks[last.task_id].estimated_hours > 0

\* C9: for every non-empty candidate list the fallback returns a result, never
\* an error, and the person it recommends is the candidate with the least
\* load percentage, the first of them in list order when several tie.
C9_FallbackPicksFirstLeastLoaded ==
    (fb # NoRec /\ Len(cands) > 0) =>
        /\ fb.kind = "result"
        /\ fb.has_id
        /\ \E k \in 1..Len(cands) :
              /\ fb.recommended_user_id = cands[k].id
              /\ \A j \in 1..Len(cands) : cands[k].workload <= cands[j].workload
              /\ \A j \in 1..(k - 1) : cands[j].workload > cands[k].workload

\* the fallback has answered on a list whose least load is shared by two
\* candidates, neither of them the first of the list
C9_Witness ==
    /\ fb.kind = "result"
    /\ \E j, k \in 1..Len(cands) :
          /\ 1 < j /\ j < k
          /\ cands[j].workload = cands[k].workload
          /\ cands[j].workload < cands[1].workload
          /\ fb.recommended_user_id = cands[j].id

\* C10: when the oracle call fails and at least one candidate is eligible,
\* recommend_assignee returns a recommendation and not an error: it names a
\* person (one of the eligible candidates), has match score 50 and carries at
\* least one warning.
C10_OracleFailureFallsBack ==
    (/\ IsOp(last, "recommend_assignee")
     /\ last.oracle = "raise"
     /\ last.task_id \in DOMAIN tasks
     /\ Len(get_eligible_candidates(users, last.team_id)) > 0) =>
        /\ last.ok
        /\ last.rec.kind = "result"
        /\ last.rec.has_id
        /\ \E k \in 1..Len(get_eligible_candidates(users, last.team_id)) :
              last.rec.recommended_user_id = get_eligible_candidates(users, last.team_id)[k]
        /\ last.rec.match_score = 50
        /\ Len(last.rec.warnings) >= 1

\* a recommendation was asked for a team with two eligible members while the
\* oracle was failing
C10_Witness ==
    /\ IsOp(last, "recommend_assignee")
    /\ last.oracle = "raise"
    /\ last.task_id \in DOMAIN tasks
    /\ Len(get_eligible_candidates(users, last.team_id)) >= 2
    /\ last.rec.match_score = 50

\* C11: an oracle reply that cannot be parsed as the expected structured
\* reply is handled like an oracle failure: for the same candidates
\* recommend_assignee returns the fallback recommendation (least loaded
\* candidate, score 50, a warning), and no returned result lacks a
\* recommended person.
C11_MalformedReplyFallsBack ==
    (/\ IsOp(last, "recommend_assignee")
     /\ last.task_id \in DOMAIN tasks
     /\ Len(get_eligible_candidates(users, last.team_id)) > 0) =>
        /\ last.oracle = "malformed" =>
              last.rec = fallback_recommendation(candidates_data(users, last.team_id))
        /\ last.rec.kind = "result" => last.rec.has_id

NoCandidatesError == ErrorRec("Nenhum colaborador disponivel")

\* C12: when the candidate list is empty the engine reports the explicit
\* "no candidates" error, names no recommended person and does not call the
\* oracle; auto-distribute and rebalance then change no work item and no load
\* (and the rebalancer proposes no move).
C12_NoCandidatesIsAnError ==
    [][Len(get_eligible_candidates(users, last'.team_id)) = 0 =>
        /\ (/\ last'.op \in {"recommend_assignee", "auto_distribute_task"}
            /\ last'.task_id \in DOMAIN tasks) =>
              /\ last'.rec = NoCandidatesError
              /\ ~last'.rec.has_id
              /\ ~last'.ok
              /\ last'.oracle = "none"
              /\ users' = users /\ tasks' = tasks
        /\ IsOp(last', "rebalance_team_workload") =>
              /\ last'.moves = <<>>
              /\ users' = users /\ tasks' = tasks]_vars

\* an auto-assign was asked for an existing item while nobody had free hours
C12_Witness ==
    /\ IsOp(last, "auto_distribute_task")
    /\ last.flag
    /\ last.task_id \in DOMAIN tasks
    /\ Len(get_eligible_candidates(users, NoUser)) = 0
    /\ last.rec = NoCandidatesError

\* the ids the eligibility filter returns
EligibleIds(U, team_id) ==
    {get_eligible_candidates(U, team_id)[k] :
        k \in 1..Len(get_eligible_candidates(U, team_id))}

\* C13: whatever the oracle replies, the recommended person of a returned
\* recommendation is one of the candidates passed to the engine, so after an
\* auto-assign or a rebalance apply the item's assignee is an existing, active
\* contributor that the eligibility filter returned for that request.
C13_RecommendedIsACandidate ==
    [][/\ (/\ last'.op \in {"recommend_assignee", "auto_distribute_task"}
           /\ last'.rec.kind = "result" /\ last'.rec.has_id) =>
              last'.rec.recommended_user_id \in EligibleIds(users, last'.team_id)
       /\ (IsOp(last', "auto_distribute_task") /\ last'.ok) =>
              tasks'[last'.task_id].assigned_to \in EligibleIds(users, NoUser)
       /\ (IsOp(last', "rebalance_team_workload") /\ last'.ok /\ last'.flag) =>
              \A t \in DOMAIN tasks :
                  tasks'[t].assigned_to # tasks[t].assigned_to =>
                      tasks'[t].assigned_to \in EligibleIds(users, last'.team_id)]_vars

\* C14: for every users table and optional team scope, every person the
\* eligibility filter returns is active, has role colaborador (never gestor or
\* admin), has available hours above zero and, when a team scope is given,
\* has that manager as manager.
C14_EligibleAreActiveContributors ==
    IsOp(last, "get_eligible_candidates") =>
        \A k \in 1..Len(cands) :
            LET u == users[cands[k].id] IN
            /\ u.is_active
            /\ u.role = "colaborador"
            /\ u.role \notin {"gestor", "admin"}
            /\ Max(0, u.workload_capacity - u.current_workload) > 0
            /\ last.team_id # NoUser => u.manager_id = last.team_id

\* a team scope was asked that has one eligible member beside an inactive
\* contributor of the same team with free hours
C14_Witness ==
    /\ IsOp(last, "get_eligible_candidates")
    /\ last.team_id = 1
    /\ Len(cands) = 1
    /\ \E i \in UserIds :
          /\ ~users[i].is_active
          /\ users[i].role = "colaborador"
          /\ users[i].manager_id = 1
          /\ users[i].current_workload < users[i].workload_capacity

\* six times the mean of the first three scores minus six times the mean of
\* the last three
OlderMinusRecent6(scores) ==
    2 * (scores[1] + scores[2] + scores[3])
      - 2 * (scores[Len(scores)] + scores[Len(scores) - 1] + scores[Len(scores) - 2])

\* C15: for every chronological sequence of at least 3 scores in 1..5 the
\* declining-trend test is true exactly when the mean of the last 3 scores is
\* at least 0.5 below the mean of the first 3; (5,5,5,1,1,1) gives true and
\* (3,3,3,3,3,3) gives false.
C15_DecliningTrendIsHalfPointDrop ==
    (burnout.kind = "trend" /\ Len(checks) >= 3) =>
        /\ burnout.declining_mood <=> OlderMinusRecent6(MoodScores(checks)) >= 3
        /\ MoodScores(checks) = <<5, 5, 5, 1, 1, 1>> => burnout.declining_mood
        /\ MoodScores(checks) = <<3, 3, 3, 3, 3, 3>> => ~burnout.declining_mood

\* the test has answered false on four scores whose recent mean is a third of
\* a point below the older one
C15_Witness ==
    /\ burnout.kind = "trend"
    /\ MoodScores(checks) = <<3, 3, 3, 2>>
    /\ ~burnout.declining_mood

Indicator(b) == IF b THEN 1 ELSE 0

LowShare(scores) == 2 * Cardinality({k \in 1..Len(scores) : scores[k] <= 2}) > Len(scores)

\* C16: for every window of at least 3 checks the risk score is
\* 30 [mood declining] + 30 [energy declining] + 20 [more than half of the
\* checks have mood <= 2] + 20 [more than half have energy <= 2], lies in
\* 0..100, and is high from 80, medium from 50 to 79 and low below; with all
\* four patterns it is 100 and high.
C16_RiskScoreAndSeverity ==
    (burnout # NoBurnout /\ burnout.kind # "trend" /\ Len(checks) >= 3) =>
        LET dm == OlderMinusRecent6(MoodScores(checks)) >= 3
            de == OlderMinusRecent6(EnergyScores(checks)) >= 3
            lm == LowShare(MoodScores(checks))
            le == LowShare(EnergyScores(checks))
        IN  /\ burnout.kind = "result"
            /\ burnout.risk_score = 30 * Indicator(dm) + 30 * Indicator(de)
                                      + 20 * Indicator(lm) + 20 * Indicator(le)
            /\ burnout.risk_score \in 0..100
            /\ burnout.severity =
                  (IF burnout.risk_score >= 80 THEN "high"
                   ELSE IF burnout.risk_score \in 50..79 THEN "medium" ELSE "low")
            /\ (dm /\ de /\ lm /\ le) =>
                  (burnout.risk_score = 100 /\ burnout.severity = "high")

\* a window in which all four patterns hold has been analysed
C16_Witness ==
    /\ burnout.kind = "result"
    /\ burnout.declining_mood /\ burnout.declining_energy
    /\ burnout.consistent_low_mood /\ burnout.consistent_low_energy
    /\ burnout.risk_score = 100

\* C17: with fewer than 3 checks in the window the detection returns an
\* explicit insufficient-data result: no pattern, no risk score, no severity,
\* and not an error.
C17_FewChecksIsInsufficientData ==
    (burnout # NoBurnout /\ burnout.kind # "trend" /\ Len(checks) < 3) =>
        /\ burnout.kind = "insufficient_data"
        /\ ~burnout.has_pattern
        /\ burnout.risk_score = NoScore
        /\ burnout.severity = NoReason
        /\ ~(burnout.declining_mood \/ burnout.declining_energy
               \/ burnout.consistent_low_mood \/ burnout.consistent_low_energy)

\* the detection has answered on a window of two bad checks
C17_Witness ==
    /\ burnout.kind = "insufficient_data"
    /\ Len(checks) = 2
    /\ \A k \in 1..2 : checks[k].mood <= 2 /\ checks[k].energy <= 2

\* the transitions of the status machine
StatusTransitions ==
    {<<"pending", "in_progress">>, <<"in_progress", "completed">>}
      \cup ({"pending", "in_progress"} \X {"blocked", "cancelled"})

\* C18: a work item's status only changes along pending -> in_progress,
\* in_progress -> completed and pending or in_progress -> blocked or
\* cancelled: no update moves a completed or cancelled item to another status
\* and none takes an item from pending straight to completed.
C18_StatusFollowsTheMachine ==
    [][\A t \in DOMAIN tasks \cap DOMAIN tasks' :
          tasks'[t].status # tasks[t].status =>
              <<tasks[t].status, tasks'[t].status>> \in StatusTransitions]_vars

\* C19: changing a work item's assignee never changes its status: after an
\* auto-assign or the moves of a rebalance run every item has the status it
\* had before (an in_progress item stays in_progress).
C19_ReassignmentKeepsStatus ==
    [][last'.op \in {"auto_distribute_task", "rebalance_team_workload"} =>
          \A t \in DOMAIN tasks : tasks'[t].status = tasks[t].status]_vars

\* C20: the start time is stamped by the first update that sets the status to
\* in_progress and the completion time by the first that sets it to
\* completed; a timestamp that is set is never changed by a later update, and
\* a timestamp is only ever set by such an update.
C20_TimestampsAreStampedOnce ==
    [][\A t \in DOMAIN tasks \cap DOMAIN tasks' :
          /\ tasks[t].started_at # NoTime => tasks'[t].started_at = tasks[t].started_at
          /\ tasks[t].completed_at # NoTime =>
                tasks'[t].completed_at = tasks[t].completed_at
          /\ (tasks'[t].status = "in_progress" /\ tasks[t].status # "in_progress") =>
                tasks'[t].started_at # NoTime
          /\ (tasks'[t].status = "completed" /\ tasks[t].status # "completed") =>
                tasks'[t].completed_at # NoTime
          /\ tasks'[t].started_at # tasks[t].started_at =>
                tasks'[t].status = "in_progress"
          /\ tasks'[t].completed_at # tasks[t].completed_at =>
                tasks'[t].status = "completed"]_vars

\* an item started at 1 and completed at 2 is in progress again after an
\* update that succeeded
C20_Witness ==
    /\ IsOp(last, "update_task") /\ last.ok
    /\ tasks[1].status = "in_progress"
    /\ tasks[1].started_at = 1 /\ tasks[1].completed_at = 2

\* C21: an engine operation called with an identifier that does not exist
\* returns a NotFound error and never a normal result: burnout detection asked
\* for a person that has no row answers with an error, not with an
\* insufficient-data result.
C21_UnknownPersonIsNotFound ==
    (burnout # NoBurnout /\ burnout.user_id \notin DOMAIN users) =>
        burnout.kind = "error"

\* C22: concurrent assignment applications are not serialized on a person's
\* load counter: when two of them target the same person and both load the
\* person's row before either commits, the load ends changed by the hours of
\* only one of the two items.
C22_ConcurrentAssignsLoseAnUpdate ==
    (/\ DOMAIN sessions = SessionIds
     /\ \A s \in SessionIds : sessions[s].pc = "committed"
     /\ sessions[1].user_id = sessions[2].user_id
     /\ sessions[1].loaded_workload = sessions[2].loaded_workload) =>
        /\ users[sessions[1].user_id].current_workload
              \in {sessions[s].loaded_workload + sessions[s].estimated_hours :
                     s \in SessionIds}
        /\ users[sessions[1].user_id].current_workload
              < sessions[1].loaded_workload + sessions[1].estimated_hours
                  + sessions[2].estimated_hours

\* both applications have committed, both items are the person's, and the
\* person's load grew by one item's hours only
C22_Witness ==
    /\ DOMAIN sessions = SessionIds
    /\ \A s \in SessionIds : sessions[s].pc = "committed"
    /\ \A s \in SessionIds : tasks[s].assigned_to = 3 /\ tasks[s].estimated_hours = 1
    /\ sessions[1].loaded_workload = 0 /\ sessions[2].loaded_workload = 0
    /\ users[3].current_workload = 1

\* C23: for every capacity/load pair the load percentage is 0 when the
\* capacity is 0 and load / capacity x 100 otherwise, the person is overloaded
\* exactly when the percentage is strictly above 90 (exactly 90% is not
\* overloaded), and the available hours are max(0, capacity - load), never
\* negative.
C23_WorkloadFormulas ==
    profile # NoProfile =>
        LET c == profile.workload_capacity
            l == profile.current_workload
            num == profile.workload_percentage[1]
            den == profile.workload_percentage[2]
        IN  /\ den > 0
            /\ c = 0 => num = 0
            /\ c # 0 => num * c = l * 100 * den
            /\ profile.is_overloaded <=> num > 90 * den
            /\ (c # 0 /\ l * 100 = 90 * c) => ~profile.is_overloaded
            /\ profile.available_hours = (IF c - l > 0 THEN c - l ELSE 0)
            /\ profile.available_hours >= 0

\* the profile of a person at exactly 90% of a capacity of 10 was read
C23_Witness ==
    /\ profile # NoProfile
    /\ profile.workload_capacity = 10 /\ profile.current_workload = 9
    /\ ~profile.is_overloaded
    /\ profile.available_hours = 1

\* C24: in a team of person A (capacity 40, load 38) and person B (capacity
\* 40, load 10) where A holds one pending urgent task of 4 estimated hours, a
\* rebalance run whose recommendation names B proposes exactly one move, of
\* that task from A to B, and after apply A's load is 34, B's load is 14 and
\* the task is assigned to B.
C24_ExampleMovesTheTaskToB ==
    [][(/\ users[2].current_workload = 38 /\ users[3].current_workload = 10
        /\ tasks[1].priority = "urgent" /\ tasks[1].estimated_hours = 4
        /\ IsOp(last', "rebalance_team_workload") /\ last'.ok)
       => /\ Len(last'.moves) = 1
          /\ last'.moves[1].task_id = 1
          /\ last'.moves[1].from_user = 2
          /\ last'.moves[1].to_user_id = 3
          /\ last'.flag =>
                /\ users'[2].current_workload = 34
                /\ users'[3].current_workload = 14
                /\ tasks'[1].assigned_to = 3
          /\ ~last'.flag => users' = users /\ tasks' = tasks]_vars

\* the example's run was applied: the urgent 4-hour task went from A to B
C24_Witness ==
    /\ IsOp(last, "rebalance_team_workload") /\ last.ok /\ last.flag
    /\ Len(last.moves) = 1
    /\ tasks[1].priority = "urgent" /\ tasks[1].estimated_hours = 4
    /\ tasks[1].assigned_to = 3
    /\ users[2].current_workload = 34 /\ users[3].current_workload = 14

\* C25: for each overloaded member the tasks a rebalance run considers are at
\* most 3 of that member's pending tasks and are the highest-priority ones
\* under urgent > high > medium > low: no pending task of the member left
\* unconsidered has a strictly higher priority than a considered one.
C25_ConsidersTopThreeByPriority ==
    considered # NoConsidered =>
        LET pending == {t \in DOMAIN tasks : /\ tasks[t].assigned_to = considered.user_id
                                             /\ tasks[t].status = "pending"}
            taken == {considered.task_ids[k] : k \in 1..Len(considered.task_ids)}
        IN  /\ Len(considered.task_ids) <= 3
            /\ Cardinality(taken) = Len(considered.task_ids)
            /\ taken \subseteq pending
            /\ \A t \in pending \ taken : \A c \in taken :
                   PriorityRank(tasks[t].priority) <= PriorityRank(tasks[c].priority)

\* C26: every proposed move of a rebalance report concerns a task that is
\* pending and assigned to an active member of the team whose load percentage
\* is above 90, names that member as the source and names a destination other
\* than the source; no task is taken away from a member whose load percentage
\* is 90 or below.
C26_MovesComeFromOverloadedMembers ==
    [][IsOp(last', "rebalance_team_workload") =>
          /\ \A k \in 1..Len(last'.moves) :
                LET m == last'.moves[k] IN
                /\ m.task_id \in DOMAIN tasks
                /\ tasks[m.task_id].status = "pending"
                /\ tasks[m.task_id].assigned_to = m.from_user
                /\ m.from_user \in DOMAIN users
                /\ users[m.from_user].is_active
                /\ users[m.from_user].manager_id = last'.team_id
                /\ users[m.from_user].workload_capacity # 0
                /\ users[m.from_user].current_workload * 100
                      > 90 * users[m.from_user].workload_capacity
                /\ m.to_user_id # m.from_user
          /\ \A t \in DOMAIN tasks :
                (t \in DOMAIN tasks' /\ tasks'[t].assigned_to # tasks[t].assigned_to) =>
                    /\ tasks[t].assigned_to \in DOMAIN users
                    /\ users[tasks[t].assigned_to].current_workload * 100
                          > 90 * users[tasks[t].assigned_to].workload_capacity]_vars

\* an applied run moved a task away from its holder
C26_Witness ==
    /\ IsOp(last, "rebalance_team_workload") /\ last.ok /\ last.flag
    /\ last.moves # <<>>
    /\ tasks[last.moves[1].task_id].assigned_to = last.moves[1].to_user_id
    /\ last.moves[1].to_user_id # last.moves[1].from_user

\* C27: the oracle is invoked at most once per recommendation request: when
\* that single call fails, the result is produced by the fallback at once,
\* with no second call of the oracle and no retry.
C27_OracleIsCalledAtMostOnce ==
    IsOp(last, "recommend_assignee") =>
        /\ oracle_calls <= 1
        /\ last.oracle = "raise" =>
              /\ oracle_calls = 1
              /\ last.rec.kind = "result"
              /\ last.rec.reasoning = FallbackReason
              /\ last.rec.warnings = <<FallbackWarning>>
              /\ last.rec.match_score = 50

\* the oracle failed on the only call of a request and the fallback answered
C27_Witness ==
    /\ IsOp(last, "recommend_assignee")
    /\ last.oracle = "raise"
    /\ oracle_calls = 1
    /\ last.rec.reasoning = FallbackReason

\* C28: in the result of a wellbeing analysis of a person who has checks,
\* every local metric (average mood, average energy, the two distributions,
\* the concerning count and percentage) is present with its locally computed
\* value whatever the oracle reply contains: the oracle's fields never
\* overwrite them.
C28_LocalMetricsSurviveTheMerge ==
    (/\ analysis # NoAnalysis
     /\ analysis.user_id \in DOMAIN users
     /\ checks_of(checks, analysis.user_id) # <<>>) =>
        \A key \in LocalKeys :
            /\ key \in DOMAIN analysis.result
            /\ analysis.result[key]
                  = calculate_local_metrics(checks_of(checks, analysis.user_id))[key]

\* C29: the applied flag of a rebalance report is true if and only if the run
\* persisted every move of its list; a run that proposed no move, or that
\* skipped a listed move because its task or destination could not be found,
\* does not report applied = true.
C29_AppliedMeansEveryMovePersisted ==
    [][(IsOp(last', "rebalance_team_workload") /\ last'.ok) =>
          (last'.flag <=>
              /\ last'.moves # <<>>
              /\ \A k \in 1..Len(last'.moves) :
                    /\ last'.moves[k].to_user_id \in DOMAIN users'
                    /\ tasks[last'.moves[k].task_id].assigned_to = last'.moves[k].from_user
                    /\ tasks'[last'.moves[k].task_id].assigned_to
                          = last'.moves[k].to_user_id)]_vars

\* C30: a rebalance apply never makes a member overloaded who was not
\* overloaded before the run: the moves of one run that share a destination
\* together keep that destination's load percentage at or below 90.
C30_ApplyNeverOverloadsAnyone ==
    [][(IsOp(last', "rebalance_team_workload") /\ last'.flag) =>
          \A i \in DOMAIN users :
              ~(users[i].current_workload * 100 > 90 * users[i].workload_capacity)
                  => ~(users'[i].current_workload * 100 > 90 * users'[i].workload_capacity)]_vars

\* C30, amended: a rebalance apply never makes overloaded a member who is not
\* the destination of one of the run's moves; a destination is not protected.
C30_OnlyDestinationsBecomeOverloaded ==
    [][(IsOp(last', "rebalance_team_workload") /\ last'.flag) =>
          \A i \in DOMAIN users :
              (/\ ~(users[i].current_workload * 100 > 90 * users[i].workload_capacity)
               /\ users'[i].current_workload * 100 > 90 * users'[i].workload_capacity)
                  => \E k \in 1..Len(last'.moves) : last'.moves[k].to_user_id = i]_vars

\* an applied run has left the destination of its move above 90% of its
\* capacity, which it was not above before receiving the task
C30_Witness ==
    /\ IsOp(last, "rebalance_team_workload") /\ last.ok /\ last.flag
    /\ Len(last.moves) = 1
    /\ LET m == last.moves[1] IN
       /\ m.to_user_id \in DOMAIN users
       /\ tasks[m.task_id].assigned_to = m.to_user_id
       /\ tasks[m.task_id].estimated_hours > 0
       /\ users[m.to_user_id].current_workload * 100
             > 90 * users[m.to_user_id].workload_capacity
       /\ (users[m.to_user_id].current_workload - tasks[m.task_id].estimated_hours) * 100
             <= 90 * users[m.to_user_id].workload_capacity

====
